---- MODULE Spec2Model ----
(***************************************************************************)
(* Model of the motion-planning engine of final_project: the per-tick      *)
(* evaluate() of Controller.py and Trajectory.py with the segment          *)
(* replanning logic, set_idle, the ballistic impact predictor              *)
(* (compute_impact_conditions), the Newton-Raphson loop of ikin /          *)
(* ikin_q_qd and wrap_q.                                                   *)
(*                                                                         *)
(* Units.  Time is counted in units of 5 ms (the predictor step of         *)
(* Trajectory.py; the predictor step of Controller.py is 2 units, the      *)
(* idle duration 1.5 s is 300 units).  Joint angles are counted in units   *)
(* of pi/4, so that the rest configurations (multiples of 45 degrees) and  *)
(* pi itself are integers.  The ball state inside the predictor is         *)
(* counted relative to the centre TASK_SPACE_P of the task sphere, with    *)
(* velocities in units of g*dt and positions in units of g*dt*dt, which    *)
(* makes the explicit Euler step of the code exact integer arithmetic: one *)
(* step adds the velocity to the position and subtracts 1 from v_z.        *)
(*                                                                         *)
(* The kinematic chain (fkin) and spline() of TrajectoryUtils are not part *)
(* of the modelled sources.  What fkin decides - at which iteration the    *)
(* error norm falls below the tolerance and which joint vector the         *)
(* iteration ends on - is an input of the tick.                            *)
(***************************************************************************)
EXTENDS Integers, Sequences, FiniteSets, TLC

VARIABLES variant,      \* which of the two engines: "Controller" or "Trajectory"
          now,          \* the time argument t of the last tick
          regenerated,  \* the regenerated argument of the last tick
          ball_in,      \* the ball observation the caller held before the last tick
          ball_pos,     \* the caller's ball position array after the last tick
          ball_vel,     \* the caller's ball velocity array after the last tick
          impact,       \* what compute_impact_conditions returned in the last tick
          ik,           \* what the last call of ikin did
          query,        \* the arguments of the last spline() call
          q, qd,        \* EngineState: self.q, self.qd
          t_start, q_start, qd_start,
          t_end, q_end, qd_end,
          mode,         \* which branch wrote the active segment: "TRACKING" (the
                        \* regenerated branch) or "IDLE_RETURN" (set_idle)
          msg_str       \* the diagnostic string returned by the last tick

vars == <<variant, now, regenerated, ball_in, ball_pos, ball_vel, impact, ik,
          query, q, qd, t_start, q_start, qd_start, t_end, q_end, qd_end, mode,
          msg_str>>

(***************************************************************************)
(* Bounds of the model.                                                    *)
(***************************************************************************)
\* number of joints carried (the arm has 7; the first NJ are modelled)
NJ == 1
\* ticks are issued while the clock does not exceed MaxT
MaxT == 450

(***************************************************************************)
(* Constants of the program.                                               *)
(***************************************************************************)
Variants == {"Controller", "Trajectory"}

\* None for the time fields of the segment; None for the vector fields
NoneT == -1
None == <<>>

\* np.pi in angle units of pi/4
PI == 4

\* MAX_ITER of ikin / ikin_q_qd
MAX_ITER == 500

\* t_to_idle = 1.5 s
T_TO_IDLE == 300

\* the time-to-impact 1 (s) returned when no impact is found
T_NOT_FOUND == 200

Joints == 1..NJ

AllJointnames == <<"theta1", "theta2", "theta3", "theta4", "theta5", "theta6", "theta7">>

jointnames == [j \in Joints |-> AllJointnames[j]]

zeros == [j \in Joints |-> 0]

\* self.q0 = np.radians([...]) in units of pi/4 (45 degrees)
Q0Full(v) == IF v = "Controller" THEN <<-2, 1, 0, -2, -1, 0, 0>>
                                 ELSE <<0, 2, 0, -2, 0, 0, 0>>

q0(v) == [j \in Joints |-> Q0Full(v)[j]]

qd0 == zeros

(***************************************************************************)
(* wrap_q (Controller.py).                                                 *)
(***************************************************************************)
Abs(x) == IF x < 0 THEN 0 - x ELSE x

\* math.fmod: the remainder of x / y truncated toward zero (sign of x), y > 0
fmod(x, y) == IF x >= 0 THEN x % y ELSE 0 - ((0 - x) % y)

wrap_q(qv) == [i \in DOMAIN qv |-> fmod(qv[i] + PI, 2 * PI) - PI]

VecAdd(a, b) == [j \in DOMAIN a |-> a[j] + b[j]]

VecSub(a, b) == [j \in DOMAIN a |-> a[j] - b[j]]

(***************************************************************************)
(* spline(t, T, p0, pf, v0, vf) of TrajectoryUtils: the set of (p, v) it   *)
(* may return.  It matches (p0, v0) at t = 0 and (pf, vf) at t = T; inside *)
(* the segment the position lies between the boundary positions (rounded   *)
(* to the angle grid).  With T = 0 both boundary conditions apply to the   *)
(* same instant and either may come out.                                   *)
(***************************************************************************)
Lerp(t, T, a, b) == a + ((b - a) * t) \div T

spline(t, T, p0, pf, v0, vf) ==
    IF T = 0 THEN {<<p0, v0>>, <<pf, vf>>}
    ELSE IF t = 0 THEN {<<p0, v0>>}
    ELSE IF t = T THEN {<<pf, vf>>}
    ELSE {<<[j \in DOMAIN p0 |-> Lerp(t, T, p0[j], pf[j])],
            IF 2 * t < T THEN v0 ELSE vf>>}

(***************************************************************************)
(* compute_impact_conditions: forward integration of the ball.             *)
(***************************************************************************)
\* dt of the predictor in time units: 0.01 s / 0.005 s
PredDt(v) == IF v = "Controller" THEN 2 ELSE 1

\* len(np.arange(0, 3, dt))
PredSteps(v) == IF v = "Controller" THEN 300 ELSE 600

\* TASK_SPACE_R * 0.9 = 0.27 m in position units g*dt*dt (274.949 / 1102.04):
\* the largest integer coordinate offset below it
ReachInt(v) == IF v = "Controller" THEN 274 ELSE 1102

\* (0.27 m)^2 in squared position units (75596.9985 / 1214493.96):
\* the largest integer squared distance below it
Reach2Int(v) == IF v = "Controller" THEN 75596 ELSE 1214493

\* the floor z = 0 lies 0.6 m below the sphere centre (610.998 / 2448.98
\* position units): the smallest integer z offset above it
FloorInt(v) == IF v = "Controller" THEN -610 ELSE -2448

\* r < TASK_SPACE_R * 0.9 and p_ball[2] > 0, for a ball at offset p from
\* TASK_SPACE_P.  The coordinate tests keep the squares inside 32 bits and
\* do not change the result: a coordinate beyond the radius puts the ball
\* outside.
InReach(v, p) ==
    /\ Abs(p[1]) <= ReachInt(v) /\ Abs(p[2]) <= ReachInt(v) /\ Abs(p[3]) <= ReachInt(v)
    /\ p[1] * p[1] + p[2] * p[2] + p[3] * p[3] <= Reach2Int(v)
    /\ p[3] >= FloorInt(v)

\* one pass of the loop body for loop variable t = k * dt
IntegrateStep(v, k, s) ==
    LET p == <<s.p_ball[1] + s.v_ball[1], s.p_ball[2] + s.v_ball[2], s.p_ball[3] + s.v_ball[3]>>
        w == <<s.v_ball[1], s.v_ball[2], s.v_ball[3] - 1>>
    IN  IF InReach(v, p)
        THEN [p_ball |-> p, v_ball |-> w, steps |-> s.steps + 1,
              found_impact_position |-> TRUE, t_impact_from_now |-> k * PredDt(v)]
        ELSE [p_ball |-> p, v_ball |-> w, steps |-> s.steps + 1,
              found_impact_position |-> FALSE, t_impact_from_now |-> s.t_impact_from_now]

\* for t in np.arange(0, 3, dt): ... break -- the passes lo .. hi-1 in order,
\* stopping at the break (the range is split in halves to bound the nesting)
RECURSIVE Integrate(_, _, _, _)
Integrate(v, lo, hi, s) ==
    IF s.found_impact_position \/ lo >= hi THEN s
    ELSE IF hi = lo + 1 THEN IntegrateStep(v, lo, s)
    ELSE LET mid == (lo + hi) \div 2
         IN  Integrate(v, mid, hi, Integrate(v, lo, mid, s))

\* compute_impact_conditions returning the idle duration, not 1, on failure
compute_impact_conditions_IdleTime(v, p_ball, v_ball) ==
    LET s == Integrate(v, 0, PredSteps(v),
                 [p_ball |-> p_ball, v_ball |-> v_ball, steps |-> 0,
                  found_impact_position |-> FALSE, t_impact_from_now |-> 0])
    IN  IF ~s.found_impact_position
        THEN [called |-> TRUE, found |-> FALSE, t_impact_from_now |-> T_TO_IDLE, pd_zero |-> TRUE,
              p_impact |-> "p0", pd_ball_impact |-> "pd0",
              steps |-> s.steps, p_ball |-> s.p_ball, v_ball |-> s.v_ball]
        ELSE [called |-> TRUE, found |-> TRUE, t_impact_from_now |-> s.t_impact_from_now,
              pd_zero |-> (v = "Trajectory"),
              p_impact |-> s.p_ball, pd_ball_impact |-> s.v_ball,
              steps |-> s.steps, p_ball |-> s.p_ball, v_ball |-> s.v_ball]

\* The return value, with the caller's arrays as the in-place += left them.
\* pd_zero: the goal twist handed on to ikin is the zero vector
\* (pd0/w0 on failure; pd_paddle_at_impact = np.zeros(3) in Trajectory.py).
compute_impact_conditions(v, p_ball, v_ball) ==
    LET s == Integrate(v, 0, PredSteps(v),
                 [p_ball |-> p_ball, v_ball |-> v_ball, steps |-> 0,
                  found_impact_position |-> FALSE, t_impact_from_now |-> 0])
    IN  IF ~s.found_impact_position
        THEN [called |-> TRUE, found |-> FALSE, t_impact_from_now |-> T_NOT_FOUND, pd_zero |-> TRUE,
              p_impact |-> "p0", pd_ball_impact |-> "pd0",
              steps |-> s.steps, p_ball |-> s.p_ball, v_ball |-> s.v_ball]
        ELSE [called |-> TRUE, found |-> TRUE, t_impact_from_now |-> s.t_impact_from_now,
              pd_zero |-> (v = "Trajectory"),
              p_impact |-> s.p_ball, pd_ball_impact |-> s.v_ball,
              steps |-> s.steps, p_ball |-> s.p_ball, v_ball |-> s.v_ball]

(***************************************************************************)
(* ikin (Controller.py) and ikin_q_qd (Trajectory.py).                     *)
(* first_pass is the first iteration (counted from 1) at which fkin puts   *)
(* the error norm below the tolerance, 0 if it never does.                 *)
(***************************************************************************)
ErrorBelowTol(i, first_pass) == first_pass # 0 /\ i >= first_pass

\* one pass of the loop body, iteration i (counted from 1)
IkinStep(v, i, first_pass, s) ==
    IF ErrorBelowTol(i, first_pass)
    THEN [iters |-> i, fkin_calls |-> s.fkin_calls + 1, converged |-> TRUE,
          updates |-> IF v = "Controller" THEN s.updates ELSE s.updates + 1]
    ELSE [iters |-> i, fkin_calls |-> s.fkin_calls + 1, converged |-> FALSE,
          updates |-> s.updates + 1]

\* for _ in range(MAX_ITER): ... break -- the iterations lo .. hi-1 in order,
\* stopping at the break (the range is split in halves to bound the nesting)
RECURSIVE IkinLoop(_, _, _, _, _)
IkinLoop(v, lo, hi, first_pass, s) ==
    IF s.converged \/ lo >= hi THEN s
    ELSE IF hi = lo + 1 THEN IkinStep(v, lo, first_pass, s)
    ELSE LET mid == (lo + hi) \div 2
         IN  IkinLoop(v, mid, hi, first_pass, IkinLoop(v, lo, mid, first_pass, s))

\* ikin_loop with one iteration too many: range(MAX_ITER + 1)
ikin_loop_OneMore(v, first_pass) ==
    IkinLoop(v, 1, MAX_ITER + 2, first_pass,
             [iters |-> 0, fkin_calls |-> 0, converged |-> FALSE, updates |-> 0])

\* the loop from its start: converged = False, nothing evaluated yet
ikin_loop(v, first_pass) ==
    IkinLoop(v, 1, MAX_ITER + 1, first_pass,
             [iters |-> 0, fkin_calls |-> 0, converged |-> FALSE, updates |-> 0])

\* first_pass inputs: never (0), any iteration of the loop, one too late
FirstPassInputs == 0..(MAX_ITER + 1)

\* the loop, evaluated once per input
IkinLoopTable == [v \in Variants |-> [fp \in FirstPassInputs |-> ikin_loop(v, fp)]]

\* q_sol: the joint vector the iteration ends on; qd_sol: pinv(J) @ goal twist
\* for a non-zero goal twist (a zero twist gives the zero vector).
ikin(v, first_pass, q_sol, qd_sol, pd_zero) ==
    LET s == IkinLoopTable[v][first_pass]
        qd_ret == IF pd_zero THEN zeros ELSE qd_sol
    IN  IF s.converged
        THEN [called |-> TRUE, first_pass |-> first_pass, iters |-> s.iters, fkin_calls |-> s.fkin_calls,
              converged |-> TRUE,
              q |-> IF v = "Controller" THEN wrap_q(q_sol) ELSE q_sol, qd |-> qd_ret]
        ELSE [called |-> TRUE, first_pass |-> first_pass, iters |-> s.iters, fkin_calls |-> s.fkin_calls,
              converged |-> FALSE, q |-> None, qd |-> None]

(***************************************************************************)
(* set_idle: the segment it leaves behind.                                 *)
(***************************************************************************)
\* set_idle aiming at the current configuration instead of q0
set_idle_StayInPlace(v, t, t_to_idle, self_q, self_qd) ==
    [t_start |-> t, q_start |-> self_q, qd_start |-> self_qd,
     t_end |-> t + t_to_idle, q_end |-> self_q, qd_end |-> qd0]

set_idle(v, t, t_to_idle, self_q, self_qd) ==
    [t_start |-> t, q_start |-> self_q, qd_start |-> self_qd,
     t_end |-> t + t_to_idle, q_end |-> q0(v), qd_end |-> qd0]

(***************************************************************************)
(* Inputs of a tick.                                                       *)
(***************************************************************************)
\* the time between two ticks, in time units
TickSteps == {0, 100, 301}

\* Ball observations [p, v] in predictor units, offsets from TASK_SPACE_P:
\*   at the sphere centre, at rest;
\*   at rest straight above the sphere, reaching it after 0.5 s;
\*   thrown from (0, 1, 2) m with (0, -1, -1) m/s, passing beside the sphere.
BallInputs(v) ==
    IF v = "Controller"
    THEN { [p |-> <<0, 0, 0>>,       v |-> <<0, 0, 0>>],
           [p |-> <<0, 0, 1500>>,    v |-> <<0, 0, 0>>],
           [p |-> <<0, 1018, 1426>>, v |-> <<0, -10, -10>>] }
    ELSE { [p |-> <<0, 0, 0>>,       v |-> <<0, 0, 0>>],
           [p |-> <<0, 0, 6100>>,    v |-> <<0, 0, 0>>],
           [p |-> <<0, 4082, 5714>>, v |-> <<0, -20, -20>>] }

\* joint angles the Newton iteration may end on (before wrapping)
IKRaw == {1, 3}

IKSolutions == {[j \in Joints |-> a] : a \in IKRaw}

IKVelocities == {[j \in Joints |-> a] : a \in {0, 1}}

\* the predictor, evaluated once per input
ImpactTable == [v \in Variants |-> [b \in BallInputs(v) |-> compute_impact_conditions(v, b.p, b.v)]]

(***************************************************************************)
(* evaluate(t, dt, ball_pos, ball_vel, goal_pos, regenerated).             *)
(***************************************************************************)
NoImpact == [called |-> FALSE]

NoIk == [called |-> FALSE]

NoQuery == [called |-> FALSE]

Segment == [t_start |-> t_start, q_start |-> q_start, qd_start |-> qd_start,
            t_end |-> t_end, q_end |-> q_end, qd_end |-> qd_end]

SegmentDefined(seg) ==
    /\ seg.t_start # NoneT /\ seg.t_end # NoneT
    /\ seg.q_start # None /\ seg.q_end # None
    /\ seg.qd_start # None /\ seg.qd_end # None

MsgNotConverged(v) ==
    IF v = "Controller" THEN "Newton Raphson did not converge."
    ELSE "Failed to find a valid trajectory to the ball" \o "Error magnitude at iteration ..."

MsgExpected(v) ==
    IF v = "Controller" THEN "Expected impact parameters: p= ..., R = ..." ELSE ""

\* the regenerated branch without the fallback to idle on solver failure
Replan_NoFallback(v, t, imp, ikr) ==
    [seg |-> [t_start |-> t, q_start |-> q, qd_start |-> qd,
              t_end |-> t + imp.t_impact_from_now,
              q_end |-> ikr.q, qd_end |-> ikr.qd],
     msg |-> IF ikr.q = None THEN MsgNotConverged(v) ELSE MsgExpected(v),
     mode |-> "TRACKING"]

\* the regenerated branch: segment and message after it
Replan(v, t, imp, ikr) ==
    IF ikr.q = None
    THEN [seg |-> set_idle(v, t, T_TO_IDLE, q, qd), msg |-> MsgNotConverged(v),
          mode |-> "IDLE_RETURN"]
    ELSE [seg |-> [t_start |-> t, q_start |-> q, qd_start |-> qd,
                   t_end |-> t + imp.t_impact_from_now,
                   q_end |-> ikr.q, qd_end |-> ikr.qd],
          msg |-> MsgExpected(v), mode |-> "TRACKING"]

\* the expiry test with t >= t_end
Expired_AtEnd(v, t, regen, seg) ==
    /\ v = "Controller" \/ ~regen
    /\ seg.t_end = NoneT \/ t >= seg.t_end

\* the expiry test without the test of t against t_end
Expired_NeverLate(v, t, regen, seg) ==
    /\ v = "Controller" \/ ~regen
    /\ seg.t_end = NoneT

\* "if self.t_end is None or t > self.t_end" -- an elif of the regenerated
\* test in Trajectory.py, a test of its own in Controller.py
Expired(v, t, regen, seg) ==
    /\ v = "Controller" \/ ~regen
    /\ seg.t_end = NoneT \/ t > seg.t_end

\* the arguments of the spline() call
SplineArgs(v, t, seg) ==
    IF ~SegmentDefined(seg) THEN [called |-> TRUE, defined |-> FALSE]
    ELSE IF v = "Controller"
    THEN [called |-> TRUE, defined |-> TRUE,
          t |-> t - seg.t_start, T |-> seg.t_end - seg.t_start,
          p0 |-> zeros, pf |-> wrap_q(VecSub(seg.q_end, seg.q_start)),
          v0 |-> seg.qd_start, vf |-> seg.qd_end]
    ELSE [called |-> TRUE, defined |-> TRUE,
          t |-> t - seg.t_start, T |-> seg.t_end - seg.t_start,
          p0 |-> seg.q_start, pf |-> seg.q_end,
          v0 |-> seg.qd_start, vf |-> seg.qd_end]

evaluate(t, b, regen, imp, ikr) ==
    LET v    == variant
        r1   == IF regen THEN Replan(v, t, imp, ikr) ELSE [seg |-> Segment, msg |-> "", mode |-> mode]
        seg2 == IF Expired(v, t, regen, r1.seg)
                THEN set_idle(v, t, T_TO_IDLE, q, qd) ELSE r1.seg
        args == SplineArgs(v, t, seg2)
    IN  /\ now' = t
        /\ regenerated' = regen
        /\ ball_in' = b
        /\ ball_pos' = IF regen THEN imp.p_ball ELSE b.p
        /\ ball_vel' = IF regen THEN imp.v_ball ELSE b.v
        /\ impact' = imp
        /\ ik' = ikr
        /\ t_start' = seg2.t_start /\ q_start' = seg2.q_start /\ qd_start' = seg2.qd_start
        /\ t_end' = seg2.t_end /\ q_end' = seg2.q_end /\ qd_end' = seg2.qd_end
        /\ mode' = IF Expired(v, t, regen, r1.seg) THEN "IDLE_RETURN" ELSE r1.mode
        /\ msg_str' = r1.msg
        /\ query' = args
        /\ IF args.defined
           THEN \E r \in spline(args.t, args.T, args.p0, args.pf, args.v0, args.vf) :
                   /\ q' = IF v = "Controller" THEN VecAdd(r[1], seg2.q_start) ELSE r[1]
                   /\ qd' = r[2]
           ELSE UNCHANGED <<q, qd>>
        /\ UNCHANGED variant

\* what ikin may return in a tick: failure, or convergence (here at the last
\* iteration) on one of the solutions
IkinOutcomes(v, pd_zero) ==
    {ikin(v, 0, zeros, zeros, pd_zero)}
    \cup {ikin(v, MAX_ITER, qs, qds, pd_zero) : qs \in IKSolutions, qds \in IKVelocities}

\* a tick with regenerated = True, d time units after the last one
TickRegeneratedAfter(d) ==
    \E b \in BallInputs(variant) :
        /\ now + d <= MaxT
        /\ LET imp == ImpactTable[variant][b]
           IN  \E ikr \in IkinOutcomes(variant, imp.pd_zero) :
                   evaluate(now + d, b, TRUE, imp, ikr)

\* a tick with regenerated = False, d time units after the last one
TickQuietAfter(d) ==
    \E b \in BallInputs(variant) :
        /\ now + d <= MaxT
        /\ evaluate(now + d, b, FALSE, NoImpact, NoIk)

TickRegenerated == \E d \in TickSteps : TickRegeneratedAfter(d)

TickQuiet == \E d \in TickSteps : TickQuietAfter(d)

Init ==
    /\ variant \in Variants
    /\ now = 0
    /\ regenerated = FALSE
    /\ ball_in \in BallInputs(variant)
    /\ ball_pos = ball_in.p
    /\ ball_vel = ball_in.v
    /\ impact = NoImpact
    /\ ik = NoIk
    /\ query = NoQuery
    /\ q = q0(variant)
    /\ qd = zeros
    /\ t_start = NoneT /\ q_start = None /\ qd_start = None
    /\ t_end = NoneT /\ q_end = None /\ qd_end = None
    /\ mode = "IDLE_RETURN"
    /\ msg_str = ""

Next == TickRegenerated \/ TickQuiet

Spec == Init /\ [][Next]_vars

(***************************************************************************)
(* The solver on its own: ikin applied to every first_pass input.          *)
(***************************************************************************)
IkinCall ==
    /\ ~ik.called
    /\ \E fp \in FirstPassInputs, qs \in IKSolutions, qds \in IKVelocities, pdz \in BOOLEAN :
          /\ ik' = ikin(variant, fp, qs, qds, pdz)
          /\ UNCHANGED <<variant, now, regenerated, ball_in, ball_pos, ball_vel, impact,
                         query, q, qd, t_start, q_start, qd_start, t_end, q_end, qd_end,
                         mode, msg_str>>

NextIK == IkinCall

SpecIK == Init /\ [][NextIK]_vars

(***************************************************************************)
(* The engine under a driver whose clock advances with every tick.  The    *)
(* clock of the model stops at MaxT, so a regenerated event is taken only  *)
(* while the segment it opens can still expire before MaxT.                *)
(***************************************************************************)
AdvancingSteps == TickSteps \ {0}

MinTickStep == CHOOSE d \in AdvancingSteps : \A e \in AdvancingSteps : d <= e

TickRegeneratedAdvance ==
    /\ \E d \in AdvancingSteps : TickRegeneratedAfter(d)
    /\ t_end' + MinTickStep <= MaxT

TickQuietAdvance == \E d \in AdvancingSteps : TickQuietAfter(d)

LiveNext == TickRegeneratedAdvance \/ TickQuietAdvance

LiveSpec == Init /\ [][LiveNext]_vars /\ WF_vars(TickQuietAdvance)

(***************************************************************************)
(* Properties.                                                             *)
(***************************************************************************)
\* the segment set_idle(t) writes from the engine state (self_q, self_qd)
IsIdleSegment(seg, t, self_q, self_qd) ==
    /\ seg.t_start = t /\ seg.q_start = self_q /\ seg.qd_start = self_qd
    /\ seg.t_end = t + T_TO_IDLE /\ seg.q_end = q0(variant) /\ seg.qd_end = qd0

\* C1: a regenerated tick in which ikin returns no joint configuration ends
\* with the IDLE_RETURN segment from the previous tick's (q, qd) at t to
\* (q0, 0) at t + 1.5 s, and returns a non-empty diagnostic.
C1_SolverFailureIdles ==
    [][(regenerated' /\ ik'.q = None)
         => /\ IsIdleSegment(Segment', now', q, qd)
            /\ msg_str' # ""]_vars

C1_Witness ==
    /\ regenerated /\ ik.q = None
    /\ now > 0 /\ t_start = now /\ t_end = now + T_TO_IDLE
    /\ q_start # q0(variant) /\ q_end = q0(variant)
    /\ msg_str # ""

\* C2 as stated: a regenerated tick in which the predictor finds no entry
\* ends with the IDLE_RETURN segment of the idle fallback and a diagnostic
\* reporting the failure.
C2_NoImpactIdles ==
    (regenerated /\ ~impact.found)
        => /\ t_start = now /\ t_end = now + T_TO_IDLE
           /\ q_end = q0(variant) /\ qd_end = qd0
           /\ mode = "IDLE_RETURN"
           /\ msg_str = MsgNotConverged(variant)

\* C2 amended: when the predictor finds no entry it hands the rest pose with
\* zero twist and a time-to-impact of 1 s to the solver.  If the solver
\* converges the tick ends with a segment from t to t + 1 s whose end is the
\* solver's result with zero end velocity, and the diagnostic is the nominal
\* one (the expected impact parameters in Controller.py, the empty string
\* in Trajectory.py); only if the solver fails does the tick end with the
\* IDLE_RETURN segment (t + 1.5 s, q0, 0) and a non-empty diagnostic.
C2_NoImpactTargetsRestPose ==
    (regenerated /\ ~impact.found)
        => /\ t_start = now
           /\ IF ik.q # None
              THEN /\ t_end = now + T_NOT_FOUND
                   /\ q_end = ik.q /\ qd_end = zeros
                   /\ mode = "TRACKING"
                   /\ msg_str = MsgExpected(variant)
              ELSE /\ t_end = now + T_TO_IDLE
                   /\ q_end = q0(variant) /\ qd_end = qd0
                   /\ mode = "IDLE_RETURN"
                   /\ msg_str # ""

C2_Witness ==
    /\ regenerated /\ ~impact.found /\ ik.q # None
    /\ t_end = now + T_NOT_FOUND /\ q_end # q0(variant)
    /\ variant = "Trajectory" /\ msg_str = ""

\* C3: a tick without regenerated event replaces the segment iff there is
\* none yet or t > t_end; the replacement is the IDLE_RETURN segment from
\* the previous tick's (q, qd); otherwise the six fields are unchanged.
C3_QuietTick ==
    [][(~regenerated')
         => IF t_end = NoneT \/ now' > t_end
            THEN IsIdleSegment(Segment', now', q, qd)
            ELSE Segment' = Segment]_vars

C3_Witness ==
    /\ ~regenerated /\ query.called
    /\ now > 0 /\ t_start = now /\ t_end = now + T_TO_IDLE
    /\ q_start # q0(variant) /\ q_end = q0(variant)

\* C4: after every tick the active segment has t_end > t_start.
C4_PositiveDuration ==
    query.called => t_end > t_start

\* C5: the clock never goes back in this model; spline() is only ever called
\* with a fully defined segment and 0 <= t - t_start <= t_end - t_start.
C5_QueryInsideSegment ==
    query.called => /\ query.defined
                    /\ 0 <= query.t /\ query.t <= query.T

C5_Witness ==
    /\ query.called /\ query.defined
    /\ ~regenerated /\ mode = "TRACKING"
    /\ query.T > 0 /\ query.t = query.T

\* C6: per joint, the delta handed to spline() is q_end - q_start wrapped
\* into (-pi, pi].
C6_DeltaWrapped ==
    (query.called /\ query.defined)
        => \A j \in Joints :
              LET delta == query.pf[j] - query.p0[j]
              IN  /\ 0 - PI < delta /\ delta <= PI
                  /\ (delta - (q_end[j] - q_start[j])) % (2 * PI) = 0

\* C7: ikin evaluates the kinematic model at most MAX_ITER times inside its
\* loop, returns a joint configuration only if the convergence test passed
\* at one of the MAX_ITER iterations, and returns None otherwise.
C7_IkinBounded ==
    ik.called
        => /\ ik.fkin_calls <= MAX_ITER
           /\ ik.iters <= MAX_ITER
           /\ (ik.q # None) => (ik.first_pass \in 1..MAX_ITER /\ ik.iters = ik.first_pass)
           /\ (ik.first_pass \notin 1..MAX_ITER)
                 => (ik.q = None /\ ik.qd = None /\ ik.fkin_calls = MAX_ITER)

C7_Witness ==
    /\ ik.called /\ ik.first_pass = MAX_ITER + 1
    /\ ik.q = None /\ ik.fkin_calls = MAX_ITER

\* C8: without a further regenerated event the engine stays on the TRACKING
\* segment on every tick with t <= t_end and moves to the IDLE_RETURN
\* segment towards q0 on the first tick with t > t_end; with an advancing
\* clock that tick comes.
C8_TrackingThenIdle ==
    /\ [][(mode = "TRACKING" /\ ~regenerated')
            => IF now' <= t_end
               THEN mode' = "TRACKING" /\ Segment' = Segment
               ELSE mode' = "IDLE_RETURN" /\ IsIdleSegment(Segment', now', q, qd)]_vars
    /\ (mode = "TRACKING" /\ ~regenerated) ~> (mode = "IDLE_RETURN" \/ regenerated)

C8_Witness ==
    /\ ~regenerated /\ mode = "IDLE_RETURN"
    /\ t_start = now /\ q_start \in {wrap_q(qs) : qs \in IKSolutions}
    /\ query.called /\ query.t = 0

\* C9: when an impact is found, the time-to-impact is the number of
\* integration steps applied to the returned ball state times dt.
C9_ImpactTimeMatchesPoint ==
    (regenerated /\ impact.found)
        => impact.t_impact_from_now = impact.steps * PredDt(variant)

\* C10: after any tick the caller's ball position and velocity are the ones
\* it passed in.
C10_BallUntouched ==
    ball_pos = ball_in.p /\ ball_vel = ball_in.v

====
